---- MODULE Spec2Model ----
(***************************************************************************)
(* The engine bridge of BetterMint Modded: EngineChess (command queue,     *)
(* output queue, process), the WebSocket endpoint (connection registry,    *)
(* per-connection poll loop, client command routing) of EngineWS/main.py   *)
(* and the engine hot swap (ServerThread.update_engines) of                *)
(* EngineWS/gui/main_window.py.                                            *)
(*                                                                         *)
(* Threads: the asyncio event loop thread runs every connection handler,   *)
(* every handle_client task and every process_client_command task; `cur`   *)
(* is the coroutine that owns the loop between two awaits.  One reader     *)
(* thread per engine (enqueue_output), the engine processes and the GUI    *)
(* thread (update_engines) run in parallel with it.                        *)
(***************************************************************************)
EXTENDS Integers, Sequences, FiniteSets, TLC

\* ------------------------------------------------------------------ bounds
MaxEngines == 2      \* engines of one generation
MaxConns == 2        \* WebSocket connections ever opened
MaxMsgs == 2         \* client messages received over all connections
MaxLines == 2        \* output lines one engine process produces
MaxUpdates == 1      \* calls of update_engines
\* earlier connections that have come and gone, their handlers ended
MaxGone == 3

Conns == 1..MaxConns
EngineIds == 1..(MaxEngines * (MaxUpdates + 1))

\* cur: the event loop is between tasks / runs a process_client_command task
LoopIdle == 0
CmdTask == -1

\* ------------------------------------------------------------------ strings
\* The client messages of the model and their characters, for the two string
\* tests process_client_command makes (str.startswith and the `in` operator).
ClientCmds == {"go", "go nodes 5", "ucinewgame", "stop", "quit"}

Chars(s) ==
    CASE s = "go" -> <<"g", "o">>
      [] s = "go nodes 5" -> <<"g", "o", " ", "n", "o", "d", "e", "s", " ", "5">>
      [] s = "go nodes 1" -> <<"g", "o", " ", "n", "o", "d", "e", "s", " ", "1">>
      [] s = "nodes" -> <<"n", "o", "d", "e", "s">>
      [] s = "ucinewgame" -> <<"u", "c", "i", "n", "e", "w", "g", "a", "m", "e">>
      [] s = "stop" -> <<"s", "t", "o", "p">>
      [] s = "quit" -> <<"q", "u", "i", "t">>

\* data.startswith(prefix)
StartsWith(data, prefix) ==
    LET d == Chars(data)
        p == Chars(prefix)
    IN  /\ Len(p) <= Len(d)
        /\ SubSeq(d, 1, Len(p)) = p

\* sub in data
Contains(data, sub) ==
    LET d == Chars(data)
        p == Chars(sub)
    IN  \E i \in 1..(Len(d) - Len(p) + 1) : SubSeq(d, i, i + Len(p) - 1) = p

Range(s) == {s[i] : i \in 1..Len(s)}

\* ------------------------------------------------------------------ engine configurations
\* config['is_maia'], 'weights_file' in maia_config, maia_config['use_slowmover'],
\* and whether setup_book_and_tablebase found a book / a tablebase path.
Config(maia, weights, slow, book, tb) ==
    [is_maia |-> maia, weights_file |-> weights, use_slowmover |-> slow,
     opening_book |-> book, tablebase_path |-> tb]

StdConfig == Config(FALSE, FALSE, FALSE, FALSE, FALSE)
MaiaConfig == Config(TRUE, TRUE, FALSE, FALSE, FALSE)
NoConfig == Config(FALSE, FALSE, FALSE, FALSE, FALSE)
BasicConfigs == {StdConfig, MaiaConfig}

\* the configuration lists a server is started or reconfigured with
ConfigLists(S) == UNION {[1..n -> S] : n \in 1..MaxEngines}

\* an entry of _command_queue: the command text, and (history) the client
\* message it derives from: cl = 0 for a command of the handshake
Cmd(c, cl, seq) == [cmd |-> c, cl |-> cl, seq |-> seq]
Hs(c) == Cmd(c, 0, 0)

NoLine == [e |-> 0, n |-> 0]

VARIABLES
    engines,                      \* the list shared by the server and update_engines
    config,                       \* per engine object: its configuration
    proc,                         \* per engine object: "none", "running", "exited"
    command_queue,                \* EngineChess._command_queue
    stdin,                        \* what was written to the process's stdin, in order
    has_quit_command_been_sent,   \* EngineChess._has_quit_command_been_sent
    is_initialized,               \* EngineChess.is_initialized
    queueOutput,                  \* EngineChess.queueOutput
    produced,                     \* lines the process has produced so far
    active_connections,           \* the registry of create_fastapi_app
    client_state,                 \* WebSocket.client_state per connection
    transport_ok,                 \* FALSE once the connection's transport rejects writes
    table,                        \* the hash table of the set active_connections: slots in use, mask
    receiving,                    \* the connection's handle_client task is in its loop
    pc,                           \* where the connection's websocket_endpoint coroutine is
    responses,                    \* its `responses` still to broadcast (head: current)
    sweep,                        \* its iterator over active_connections
    disconnected_connections,     \* its disconnected_connections
    err,                          \* the exception that ended its poll loop
    unregistered,                 \* (history) what its final discard found in the registry
    write_failed,                 \* per connection: send_text calls that raised (up to 2)
    received,                     \* lines the client has been sent, in order
    tasks,                        \* process_client_command tasks in the loop's ready queue
    inbox,                        \* the client messages received so far, in order
    cur,                          \* the coroutine running on the event loop thread
    walk,                         \* its position in a loop over `engines`
    routed,                       \* per finished process_client_command: the engines it put to
    upd,                          \* where the GUI thread is in update_engines
    updates,                      \* calls of update_engines that have returned
    generation,                   \* the engine sets built so far: at startup, by each update
    engine_configs,               \* ServerThread.engine_configs
    loaded,                       \* per configuration of the latest load loop: engine loaded
    activity,                     \* what on_engine_config_changed logged to the activity log
    settings,                     \* SettingsManager.settings
    response,                     \* the answer to the latest /api/settings/{key} request
    thread,                       \* where ServerThread.run is
    stop_event,                   \* ServerThread.stop_event
    server_running,               \* ChessEngineGUI.server_running
    gui,                          \* "waiting" while stop_server waits for the thread
    change                        \* (history) the latest engine-configuration change

engineVars == <<engines, config, proc, command_queue, stdin,
                has_quit_command_been_sent, is_initialized, queueOutput, produced>>
connVars == <<active_connections, client_state, transport_ok, table, receiving, pc,
              responses, sweep, disconnected_connections, err, unregistered, write_failed, received>>
stepVars == <<walk, routed>>
lifeVars == <<thread, stop_event, server_running, gui, change>>
guiVars == <<upd, updates, generation, engine_configs, loaded, activity, lifeVars>>
apiVars == <<settings, response>>
vars == <<engineVars, connVars, tasks, inbox, cur, stepVars, guiVars, apiVars>>

\* ------------------------------------------------------------------ EngineChess
\* an activation that probes for readiness before it sets the options
ProbeFirst(cfg) ==
    <<Hs("uci"), Hs("isready")>>
    \o (IF cfg.weights_file THEN <<Hs("setoption name WeightsFile")>> ELSE <<>>)
    \o <<Hs("setoption name Threads value 1"),
         Hs("setoption name MinibatchSize value 1"),
         Hs("setoption name MaxPrefetch value 0"),
         Hs("setoption name NodesPerSecondLimit")>>

\* initialize_maia: the commands it puts, in order
MaiaHandshake(cfg) ==
    <<Hs("uci")>>
    \o (IF cfg.weights_file THEN <<Hs("setoption name WeightsFile")>> ELSE <<>>)
    \o <<Hs("setoption name Threads value 1"),
         Hs("setoption name MinibatchSize value 1"),
         Hs("setoption name MaxPrefetch value 0"),
         Hs("setoption name NodesPerSecondLimit")>>
    \o (IF cfg.use_slowmover THEN <<Hs("setoption name SlowMover value 0")>> ELSE <<>>)
    \o (IF cfg.opening_book
        THEN <<Hs("setoption name Book value true"), Hs("setoption name BookFile")>>
        ELSE <<>>)
    \o (IF cfg.tablebase_path THEN <<Hs("setoption name SyzygyPath")>> ELSE <<>>)
    \o <<Hs("isready")>>

StandardHandshake(cfg) ==
    <<Hs("uci")>>
    \o (IF cfg.opening_book
        THEN <<Hs("setoption name Book value true"),
               Hs("setoption name BookFile value true"),
               Hs("setoption name OwnBook value true"),
               Hs("setoption name UseBook value true"),
               Hs("setoption name BookFile")>>
        ELSE <<>>)
    \o (IF cfg.tablebase_path
        THEN <<Hs("setoption name SyzygyPath"), Hs("setoption name TablebaseePath"),
               Hs("setoption name Tablebase"), Hs("setoption name TbPath")>>
        ELSE <<>>)
    \o <<Hs("isready")>>

\* initialize_maia(): what it appends to the queue of an engine in state `init`
initialize_maia(cfg, init) ==
    IF init THEN <<>>
    ELSE IF cfg.is_maia THEN MaiaHandshake(cfg) ELSE StandardHandshake(cfg)

\* send_next_command, on engine e
Dequeues(e) == command_queue[e] # <<>>
Writes(e) == Dequeues(e) /\ ~has_quit_command_been_sent[e]
\* the write reaches a process that has exited: BrokenPipeError
WriteRaises(e) == Writes(e) /\ proc[e] = "exited"
\* _read_line raises "The engine process has crashed"
ReadRaises(e) == proc[e] = "exited"
Raises(e) == WriteRaises(e) \/ ReadRaises(e)

QueueAfterRead(e) == IF Dequeues(e) THEN Tail(command_queue[e]) ELSE command_queue[e]
\* a send_next_command that writes the whole queue
FlushAll(e) == stdin[e] \o command_queue[e]
\* what the process has been written after send_next_command
StdinAfterRead(e) ==
    IF Writes(e) /\ ~WriteRaises(e) THEN Append(stdin[e], Head(command_queue[e]))
    ELSE stdin[e]
\* a send_next_command that never sets the flag
QuitForgotten(e) == has_quit_command_been_sent[e]
\* _has_quit_command_been_sent after send_next_command
QuitAfterRead(e) ==
    \/ has_quit_command_been_sent[e]
    \/ Writes(e) /\ ~WriteRaises(e) /\ Head(command_queue[e]).cmd = "quit"
\* _read_line: the line get_nowait returns, NoLine for ""
LineRead(e) ==
    IF ~Raises(e) /\ queueOutput[e] # <<>> THEN Head(queueOutput[e]) ELSE NoLine
\* a read that empties the queue
DrainAll(e) == <<>>
\* _read_line: what get_nowait leaves in the queue
OutputAfterRead(e) ==
    IF ~Raises(e) /\ queueOutput[e] # <<>> THEN Tail(queueOutput[e]) ELSE queueOutput[e]


\* ------------------------------------------------------------------ startup
\* a load loop stops at the first configuration whose engine fails to load
AbortOnFailure(i, ok, n) == IF ok THEN i + 1 ELSE n + 1

\* the configuration a load loop goes to after configuration i of n: the
\* handler of a failed load logs it and the loop continues
NextConfig(i, ok, n) == i + 1

\* `for config in self.engine_configs:` from configuration i on, where oks[i]
\* says whether EngineChess(...) succeeds for it: the configurations appended
RECURSIVE LoadFrom(_, _, _)
LoadFrom(cfgs, oks, i) ==
    IF i > Len(cfgs) THEN <<>>
    ELSE (IF oks[i] THEN <<cfgs[i]>> ELSE <<>>)
            \o LoadFrom(cfgs, oks, NextConfig(i, oks[i], Len(cfgs)))

\* the messages of that loop: one per configuration it came to
RECURSIVE LogFrom(_, _, _)
LogFrom(cfgs, oks, i) ==
    IF i > Len(cfgs) THEN <<>>
    ELSE <<oks[i]>> \o LogFrom(cfgs, oks, NextConfig(i, oks[i], Len(cfgs)))

\* ServerThread.run (main.py): one EngineChess per configuration that loads,
\* then initialize_maia for the is_maia engines only.
StartEngines(cfgs, oks) ==
    LET up == LoadFrom(cfgs, oks, 1)
    IN  /\ engines = [i \in 1..Len(up) |-> i]
        /\ config = [e \in EngineIds |-> IF e <= Len(up) THEN up[e] ELSE NoConfig]
        /\ proc = [e \in EngineIds |-> IF e <= Len(up) THEN "running" ELSE "none"]
        /\ command_queue = [e \in EngineIds |->
                IF e <= Len(up) /\ up[e].is_maia
                THEN initialize_maia(up[e], FALSE) ELSE <<>>]
        /\ is_initialized = [e \in EngineIds |-> e <= Len(up) /\ up[e].is_maia]
        /\ stdin = [e \in EngineIds |-> <<>>]
        /\ has_quit_command_been_sent = [e \in EngineIds |-> FALSE]
        /\ queueOutput = [e \in EngineIds |-> <<>>]
        /\ produced = [e \in EngineIds |-> 0]
        /\ generation = <<{i : i \in 1..Len(up)}>>
        /\ engine_configs = cfgs
        /\ loaded = LogFrom(cfgs, oks, 1)
        /\ activity = <<>>

\* a startup in which every configured engine loads
InitEngines(cfgs) == StartEngines(cfgs, [i \in 1..Len(cfgs) |-> TRUE])

NoWalk == [idx |-> 0, task |-> 0, lines |-> <<>>, targets |-> {}]
NoUpdate == [pc |-> "idle", i |-> 0, cfgs |-> <<>>, built |-> {}]

\* the iterator of a sweep: the size of the set when it was made, the
\* connections it has still to yield and those it knows; and (history) the
\* registry when the sweep began, its connections that were CONNECTED, those a
\* send had already failed on, and the connections the line was sent to
NoSweep ==
    [size |-> 0, todo |-> {}, known |-> {}, reg |-> {}, start |-> {}, dead |-> {},
     sent |-> {}]

\* the set object behind active_connections.  CPython keeps it in a hash table:
\* a discard leaves a dummy in the slot, an add reuses a dummy its probe
\* meets or else takes a fresh slot, and when the slots in use (entries and
\* dummies) reach 3/5 of the table the add rebuilds the table, which moves
\* entries to other slots.  `set()`: an empty table of 8 slots
NewTable == [fill |-> 0, mask |-> 7]

\* there is a dummy an add may reuse
Dummies(t, reg) == t.fill > Cardinality(reg)

\* an add that takes a fresh slot makes the table too full
TooFull(t) == (t.fill + 1) * 5 >= t.mask * 3

\* the size of the rebuilt table: the first power of two above minused
RECURSIVE TableSize(_, _)
TableSize(size, minused) ==
    IF size <= minused THEN TableSize(2 * size, minused) ELSE size

\* the table after active_connections.add of a connection not in reg
TableAfterAdd(t, reg, fresh) ==
    IF ~fresh THEN t
    ELSE IF TooFull(t)
    THEN [fill |-> Cardinality(reg) + 1,
          mask |-> TableSize(8, 4 * (Cardinality(reg) + 1)) - 1]
    ELSE [t EXCEPT !.fill = @ + 1]

\* a set iterator suspended in connection d's sweep, after a rebuild of the
\* table: it goes on from its slot index in the new table, where any entry,
\* yielded already or not, may lie before or after that index
Moved(d) ==
    IF pc[d] \in {"iter", "send"}
    THEN [sweep[d] EXCEPT !.todo = {}, !.known = {}]
    ELSE sweep[d]

\* create_fastapi_app: no connection yet
InitConns ==
    /\ active_connections = {}
    /\ client_state = [c \in Conns |-> "none"]
    /\ transport_ok = [c \in Conns |-> TRUE]
    /\ receiving = [c \in Conns |-> FALSE]
    /\ pc = [c \in Conns |-> "none"]
    /\ responses = [c \in Conns |-> <<>>]
    /\ sweep = [c \in Conns |-> NoSweep]
    /\ disconnected_connections = [c \in Conns |-> {}]
    /\ err = [c \in Conns |-> "none"]
    /\ unregistered = [c \in Conns |-> "no"]
    /\ write_failed = [c \in Conns |-> 0]
    /\ received = [c \in Conns |-> <<>>]
    /\ tasks = <<>>
    /\ inbox = <<>>
    /\ cur = LoopIdle
    /\ walk = NoWalk
    /\ routed = <<>>
    /\ upd = NoUpdate
    /\ updates = 0

\* no engine-configuration change yet
NoChange == [seen |-> FALSE, running |-> FALSE, sel |-> <<>>]

\* ServerThread.run is in its event loop, started by start_server
Serving ==
    /\ thread = "serving" /\ stop_event = FALSE
    /\ server_running = TRUE /\ gui = "idle" /\ change = NoChange

\* the server after construction: `active_connections = set()`
InitServer == InitConns /\ table = NewTable /\ Serving

\* ------------------------------------------------------------------ the settings API
\* keys of SettingsManager.settings: two of default_settings, and one that is
\* in the dictionary only once it was set or loaded from the settings file
SettingKeys == {"depth", "multipv", "custom"}

\* values a key is stored with; "None" is Python's None (JSON null)
StoredValues == {"None", "3", "15"}

\* the key is not in the dictionary
Absent == "absent"

DefaultSettings ==
    [k \in SettingKeys |-> CASE k = "depth" -> "15" [] k = "multipv" -> "3" [] OTHER -> Absent]

\* load_settings: the defaults, updated with what the settings file holds
LoadedSettings ==
    {s \in [SettingKeys -> StoredValues \cup {Absent}] :
        s["depth"] # Absent /\ s["multipv"] # Absent}

NoResponse == [op |-> "none", status |-> 0, key |-> "", value |-> ""]

\* SettingsManager.get_setting(key): self.settings.get(key, None)
get_setting(s, key) == IF s[key] = Absent THEN "None" ELSE s[key]

\* GET /api/settings/{key}
GetSetting(key) ==
    /\ LET value == get_setting(settings, key)
       IN  response' = IF value = "None"
                       THEN [op |-> "GET", status |-> 404, key |-> key, value |-> ""]
                       ELSE [op |-> "GET", status |-> 200, key |-> key, value |-> value]
    /\ UNCHANGED <<engineVars, connVars, tasks, inbox, cur, stepVars, guiVars, settings>>

\* POST /api/settings/{key} with the body {"value": value}, or with a body
\* that has no "value" (the KeyError is answered with 400)
SetSetting(key, body) ==
    /\ IF body = Absent
       THEN /\ response' = [op |-> "POST", status |-> 400, key |-> key, value |-> ""]
            /\ UNCHANGED settings
       ELSE /\ settings' = [settings EXCEPT ![key] = body]
            /\ response' = [op |-> "POST", status |-> 200, key |-> key, value |-> body]
    /\ UNCHANGED <<engineVars, connVars, tasks, inbox, cur, stepVars, guiVars>>

InitSettings(s) ==
    /\ settings = s
    /\ response = NoResponse

Init ==
    /\ \E cfgs \in ConfigLists(BasicConfigs) : InitEngines(cfgs)
    /\ InitServer
    /\ InitSettings(DefaultSettings)

\* ------------------------------------------------------------------ the WebSocket endpoint
\* active_connections.add(websocket)
add(reg, c) == reg \cup {c}

\* set.remove in place of set.discard: KeyError when the element is absent
remove(reg, c) == [registry |-> reg \ {c}, raised |-> c \notin reg]

\* active_connections.discard(websocket)
discard(reg, c) == [registry |-> reg \ {c}, raised |-> FALSE]

\* the coroutine leaves the poll loop on exception exc: the finally block
\* discards the connection from the registry and closes it if CONNECTED; an
\* exception of the discard would leave the block before the close
Finally(c, exc) ==
    LET d == discard(active_connections, c)
    IN  /\ active_connections' = d.registry
        /\ unregistered' = [unregistered EXCEPT ![c] =
                 IF c \in active_connections THEN "removed" ELSE "absent"]
        /\ err' = [err EXCEPT ![c] = IF d.raised THEN "KeyError" ELSE exc]
        /\ client_state' = [client_state EXCEPT ![c] =
                 IF @ = "connected" /\ ~d.raised THEN "closed" ELSE @]
        /\ receiving' = [receiving EXCEPT ![c] = FALSE]
        /\ pc' = [pc EXCEPT ![c] = "done"]
        /\ cur' = LoopIdle

\* websocket_endpoint up to `await websocket.accept()`
Connect(c) ==
    /\ cur = LoopIdle
    /\ pc[c] = "none"
    /\ active_connections' = add(active_connections, c)
    /\ \E fresh \in BOOLEAN :
            /\ fresh \/ Dummies(table, active_connections)
            /\ table' = TableAfterAdd(table, active_connections, fresh)
            /\ sweep' = IF fresh /\ TooFull(table)
                        THEN [d \in Conns |-> Moved(d)] ELSE sweep
    /\ client_state' = [client_state EXCEPT ![c] = "connecting"]
    /\ pc' = [pc EXCEPT ![c] = "accept"]
    /\ UNCHANGED <<engineVars, transport_ok, receiving, responses,
                   disconnected_connections, err, unregistered, write_failed, received, tasks, inbox, cur, stepVars, guiVars, apiVars>>

\* accept() returns; handle_client is created; the coroutine enters `while True`
Accepted(c) ==
    /\ cur = LoopIdle
    /\ pc[c] = "accept"
    /\ client_state' = [client_state EXCEPT ![c] = "connected"]
    /\ receiving' = [receiving EXCEPT ![c] = TRUE]
    /\ pc' = [pc EXCEPT ![c] = "read"]
    /\ cur' = c
    /\ UNCHANGED <<engineVars, active_connections, transport_ok, table, responses, sweep,
                   disconnected_connections, err, unregistered, write_failed, received, tasks, inbox, stepVars, guiVars, apiVars>>

\* (history) the number of finished updates when a message arrives, -1 while
\* update_engines is running
Epoch == IF upd.pc = "idle" THEN updates ELSE -1

\* handle_client: receive_text returns data; create_task(process_client_command(data))
ClientSend(c, data) ==
    /\ cur = LoopIdle
    /\ receiving[c]
    /\ client_state[c] = "connected"
    /\ Len(inbox) < MaxMsgs
    /\ inbox' = Append(inbox, [data |-> data, epoch |-> Epoch])
    /\ tasks' = Append(tasks, [data |-> data, cl |-> c, seq |-> Len(inbox) + 1])
    /\ UNCHANGED <<engineVars, connVars, cur, stepVars, guiVars, apiVars>>

\* handle_client: receive_text raises WebSocketDisconnect; the task ends.  The
\* connection's poll loop goes on.
ClientDisconnect(c) ==
    /\ cur = LoopIdle
    /\ receiving[c]
    /\ client_state[c] = "connected"
    /\ client_state' = [client_state EXCEPT ![c] = "disconnected"]
    /\ receiving' = [receiving EXCEPT ![c] = FALSE]
    /\ UNCHANGED <<engineVars, active_connections, transport_ok, table, pc, responses, sweep,
                   disconnected_connections, err, unregistered, write_failed, received, tasks, inbox, cur, stepVars, guiVars, apiVars>>

\* ------------------------------------------------------------------ process_client_command
\* a "go" branch that rewrites for every engine, is_maia or not
GoCommandAlways(maia, data) ==
    IF ~Contains(data, "nodes") THEN "go nodes 1" ELSE data

\* the command the "go" branch puts to an engine
GoCommand(maia, data) ==
    IF maia
    THEN (IF ~Contains(data, "nodes") THEN "go nodes 1" ELSE data)
    ELSE data

\* a "ucinewgame" branch that only forwards the command
ForwardOnly(e, t) ==
    IF StartsWith(t.data, "go")
    THEN <<Cmd(GoCommand(config[e].is_maia, t.data), t.cl, t.seq)>>
    ELSE <<Cmd(t.data, t.cl, t.seq)>>

\* what one iteration of process_client_command's loop puts to engine e
Puts(e, t) ==
    IF StartsWith(t.data, "go")
    THEN <<Cmd(GoCommand(config[e].is_maia, t.data), t.cl, t.seq)>>
    ELSE IF StartsWith(t.data, "ucinewgame")
    THEN <<Cmd("ucinewgame", t.cl, t.seq)>>
         \o (IF config[e].is_maia THEN <<Cmd("isready", t.cl, t.seq)>>
             ELSE initialize_maia(config[e], is_initialized[e]))
    ELSE <<Cmd(t.data, t.cl, t.seq)>>

\* a "ucinewgame" branch that leaves is_initialized as it was
InitializedBefore(e, t) == is_initialized[e]

InitializedAfter(e, t) ==
    \/ is_initialized[e]
    \/ StartsWith(t.data, "ucinewgame") /\ ~config[e].is_maia

\* a ready queue that runs the newest task first
NewestTask(q) == Len(q)

\* the task the event loop runs next: its ready queue is first in, first out
NextTask(q) == 1

\* update_engines is running on the GUI thread: its steps interleave with the
\* event loop thread's loops over `engines`
GuiActive == upd.pc # "idle"

\* one process_client_command task, start to end (it never awaits)
ProcessCommand ==
    /\ cur = LoopIdle
    /\ ~GuiActive
    /\ tasks # <<>>
    /\ LET k == NextTask(tasks)
           t == tasks[k]
           es == Range(engines)
       IN  /\ tasks' = SubSeq(tasks, 1, k - 1) \o SubSeq(tasks, k + 1, Len(tasks))
           /\ command_queue' = [e \in EngineIds |->
                    IF e \in es THEN command_queue[e] \o Puts(e, t) ELSE command_queue[e]]
           /\ is_initialized' = [e \in EngineIds |->
                    IF e \in es THEN InitializedAfter(e, t) ELSE is_initialized[e]]
           /\ routed' = Append(routed, [seq |-> t.seq, targets |-> es])
    /\ UNCHANGED <<engines, config, proc, stdin, has_quit_command_been_sent,
                   queueOutput, produced, connVars, inbox, cur, walk, guiVars, apiVars>>

\* ------------------------------------------------------------------ the poll loop

\* the first engine of es whose read_line raises, 0 if none does
FirstRaise(es) ==
    IF \E i \in 1..Len(es) : Raises(es[i])
    THEN CHOOSE i \in 1..Len(es) : Raises(es[i]) /\ \A j \in 1..(i - 1) : ~Raises(es[j])
    ELSE 0

NonEmpty(l) == l # NoLine

NewSweep(conns) ==
    [size |-> Cardinality(conns), todo |-> conns, known |-> conns, reg |-> conns,
     start |-> {c \in conns : client_state[c] = "connected"},
     dead |-> {c \in conns : write_failed[c] > 0}, sent |-> {}]

\* the poll loop after the list of reads: `raiser` is the engine whose
\* read_line raised (0: none did), `lines` the non-empty responses.  An
\* exception ends the loop and runs the finally block; no response, the
\* sleep; otherwise the first line's sweep begins
AfterRead(c, raiser, pipe, lines) ==
    IF raiser # 0
    THEN /\ Finally(c, IF pipe THEN "BrokenPipeError" ELSE "crashed")
         /\ UNCHANGED <<responses, sweep, disconnected_connections>>
    ELSE IF lines = <<>>
    THEN /\ pc' = [pc EXCEPT ![c] = "sleep"]
         /\ cur' = LoopIdle
         /\ UNCHANGED <<responses, sweep, disconnected_connections, err, unregistered,
                        active_connections, client_state, receiving>>
    ELSE /\ pc' = [pc EXCEPT ![c] = "iter"]
         /\ cur' = c
         /\ responses' = [responses EXCEPT ![c] = lines]
         /\ sweep' = [sweep EXCEPT ![c] = NewSweep(active_connections)]
         /\ disconnected_connections' = [disconnected_connections EXCEPT ![c] = {}]
         /\ UNCHANGED <<err, unregistered, active_connections, client_state, receiving>>

\* `responses = [engine.read_line() for engine in engines]`, the filter, and
\* what follows up to the first iteration of the sweep or the sleep; no other
\* thread touches `engines` meanwhile
PollRead(c) ==
    /\ ~GuiActive
    /\ \/ cur = c /\ pc[c] = "read"
       \/ cur = LoopIdle /\ pc[c] = "sleep"
    /\ LET es == engines
           bad == FirstRaise(es)
           last == IF bad = 0 THEN Len(es) ELSE bad
           done == {es[i] : i \in 1..last}
           lines == SelectSeq([i \in 1..Len(es) |-> LineRead(es[i])], NonEmpty)
       IN  /\ command_queue' = [e \in EngineIds |->
                    IF e \in done THEN QueueAfterRead(e) ELSE command_queue[e]]
           /\ stdin' = [e \in EngineIds |->
                    IF e \in done THEN StdinAfterRead(e) ELSE stdin[e]]
           /\ has_quit_command_been_sent' = [e \in EngineIds |->
                    IF e \in done THEN QuitAfterRead(e) ELSE has_quit_command_been_sent[e]]
           /\ queueOutput' = [e \in EngineIds |->
                    IF e \in done THEN OutputAfterRead(e) ELSE queueOutput[e]]
           /\ AfterRead(c, IF bad = 0 THEN 0 ELSE es[bad],
                        bad # 0 /\ WriteRaises(es[bad]), lines)
    /\ UNCHANGED <<engines, config, proc, is_initialized, produced, transport_ok, table,
                   write_failed, received, tasks, inbox, stepVars, guiVars, apiVars>>

\* the same loop over `engines` while update_engines runs on the GUI thread:
\* the list iterator reads the list anew at every step
PollBegin(c) ==
    /\ GuiActive
    /\ \/ cur = c /\ pc[c] = "read"
       \/ cur = LoopIdle /\ pc[c] = "sleep"
    /\ pc' = [pc EXCEPT ![c] = "walk"]
    /\ cur' = c
    /\ walk' = [NoWalk EXCEPT !.idx = 1]
    /\ UNCHANGED <<engineVars, active_connections, client_state, transport_ok, table, receiving,
                   responses, sweep, disconnected_connections, err, unregistered, write_failed, received,
                   tasks, inbox, routed, guiVars, apiVars>>

PollStep(c) ==
    /\ cur = c
    /\ pc[c] = "walk"
    /\ IF walk.idx <= Len(engines)
       THEN LET e == engines[walk.idx]
            IN  /\ command_queue' = [command_queue EXCEPT ![e] = QueueAfterRead(e)]
                /\ stdin' = [stdin EXCEPT ![e] = StdinAfterRead(e)]
                /\ has_quit_command_been_sent' =
                        [has_quit_command_been_sent EXCEPT ![e] = QuitAfterRead(e)]
                /\ queueOutput' = [queueOutput EXCEPT ![e] = OutputAfterRead(e)]
                /\ IF Raises(e)
                   THEN /\ AfterRead(c, e, WriteRaises(e), <<>>)
                        /\ walk' = NoWalk
                   ELSE /\ walk' = [walk EXCEPT
                                !.idx = @ + 1,
                                !.lines = IF NonEmpty(LineRead(e))
                                          THEN Append(@, LineRead(e)) ELSE @]
                        /\ UNCHANGED <<connVars, cur>>
       ELSE /\ AfterRead(c, 0, FALSE, walk.lines)
            /\ walk' = NoWalk
            /\ UNCHANGED <<command_queue, stdin, has_quit_command_been_sent, queueOutput>>
    /\ UNCHANGED <<engines, config, proc, is_initialized, produced, transport_ok, table,
                   write_failed, received, tasks, inbox, routed, guiVars, apiVars>>

\* process_client_command while update_engines runs on the GUI thread
CommandBegin ==
    /\ GuiActive
    /\ cur = LoopIdle
    /\ tasks # <<>>
    /\ LET k == NextTask(tasks)
       IN  /\ tasks' = SubSeq(tasks, 1, k - 1) \o SubSeq(tasks, k + 1, Len(tasks))
           /\ walk' = [NoWalk EXCEPT !.idx = 1, !.task = tasks[k]]
    /\ cur' = CmdTask
    /\ UNCHANGED <<engineVars, connVars, inbox, routed, guiVars, apiVars>>

CommandStep ==
    /\ cur = CmdTask
    /\ IF walk.idx <= Len(engines)
       THEN LET e == engines[walk.idx]
                t == walk.task
            IN  /\ command_queue' = [command_queue EXCEPT ![e] = @ \o Puts(e, t)]
                /\ is_initialized' = [is_initialized EXCEPT ![e] = InitializedAfter(e, t)]
                /\ walk' = [walk EXCEPT !.idx = @ + 1, !.targets = @ \cup {e}]
                /\ UNCHANGED <<routed, cur>>
       ELSE /\ routed' = Append(routed, [seq |-> walk.task.seq, targets |-> walk.targets])
            /\ walk' = NoWalk
            /\ cur' = LoopIdle
            /\ UNCHANGED <<command_queue, is_initialized>>
    /\ UNCHANGED <<engines, config, proc, stdin, has_quit_command_been_sent,
                   queueOutput, produced, connVars, tasks, inbox, guiVars, apiVars>>

\* the connections the set iterator may yield next: those of the registry it
\* has not yielded yet; one added since the sweep began lies before or after
\* the iterator's position in the table
Old(c) == sweep[c].todo \cap active_connections
New(c) == active_connections \ sweep[c].known

\* the iterator raises RuntimeError("Set changed size during iteration")
SizeChanged(c) == Cardinality(active_connections) # sweep[c].size

\* `for conn in active_connections:` one step of the iterator and the loop
\* body, up to the await of send_text; at the end of the sweep the removal
\* and the start of the next line's sweep
SweepStep(c) ==
    /\ \/ cur = c /\ pc[c] = "iter"
       \/ cur = LoopIdle /\ pc[c] = "send"
    /\ IF SizeChanged(c)
       THEN /\ Finally(c, "RuntimeError")
            /\ UNCHANGED <<responses, sweep, disconnected_connections, received,
                           write_failed>>
       ELSE \/ \E conn \in Old(c) \cup New(c) :
                 LET it == [sweep[c] EXCEPT !.todo = @ \ {conn},
                                            !.known = @ \cup {conn}]
                 IN  IF client_state[conn] = "connected" /\ transport_ok[conn]
                     THEN \* send_text delivers and suspends
                          /\ received' = [received EXCEPT ![conn] =
                                   Append(@, Head(responses[c]))]
                          /\ sweep' = [sweep EXCEPT ![c] =
                                   [it EXCEPT !.sent = @ \cup {conn}]]
                          /\ pc' = [pc EXCEPT ![c] = "send"]
                          /\ cur' = LoopIdle
                          /\ UNCHANGED <<responses, disconnected_connections, err, unregistered,
                                         write_failed, active_connections,
                                         client_state, receiving>>
                     ELSE \* not CONNECTED, or send_text raises
                          /\ disconnected_connections' =
                                   [disconnected_connections EXCEPT ![c] = @ \cup {conn}]
                          /\ write_failed' = [write_failed EXCEPT ![conn] =
                                   IF client_state[conn] = "connected" /\ @ < 2
                                   THEN @ + 1 ELSE @]
                          /\ sweep' = [sweep EXCEPT ![c] = it]
                          /\ pc' = [pc EXCEPT ![c] = "iter"]
                          /\ cur' = c
                          /\ UNCHANGED <<responses, received, err, unregistered,
                                         active_connections, client_state, receiving>>
            \/ /\ Old(c) = {}
               /\ LET reg == active_connections \ disconnected_connections[c]
                      rest == Tail(responses[c])
                  IN  /\ active_connections' = reg
                      /\ responses' = [responses EXCEPT ![c] = rest]
                      /\ disconnected_connections' =
                               [disconnected_connections EXCEPT ![c] = {}]
                      /\ IF rest = <<>>
                         THEN /\ sweep' = [sweep EXCEPT ![c] = NoSweep]
                              /\ pc' = [pc EXCEPT ![c] = "read"]
                         ELSE /\ sweep' = [sweep EXCEPT ![c] = NewSweep(reg)]
                              /\ pc' = [pc EXCEPT ![c] = "iter"]
                      /\ cur' = c
                      /\ UNCHANGED <<received, err, unregistered, write_failed, client_state,
                                     receiving>>
    /\ UNCHANGED <<engineVars, transport_ok, table, tasks, inbox, stepVars, guiVars, apiVars>>

\* ------------------------------------------------------------------ the environment
\* the engine process prints a line; enqueue_output puts it in queueOutput
EngineEmit(e) ==
    /\ proc[e] = "running"
    /\ produced[e] < MaxLines
    /\ produced' = [produced EXCEPT ![e] = @ + 1]
    /\ queueOutput' = [queueOutput EXCEPT ![e] = Append(@, [e |-> e, n |-> produced[e] + 1])]
    /\ UNCHANGED <<engines, config, proc, command_queue, stdin,
                   has_quit_command_been_sent, is_initialized, connVars, tasks, inbox, cur, stepVars, guiVars, apiVars>>

\* the engine process exits (it crashed, was killed, or obeyed "quit")
ProcessExit(e) ==
    /\ proc[e] = "running"
    /\ proc' = [proc EXCEPT ![e] = "exited"]
    /\ UNCHANGED <<engines, config, command_queue, stdin, has_quit_command_been_sent,
                   is_initialized, queueOutput, produced, connVars, tasks, inbox, cur, stepVars, guiVars, apiVars>>

\* the connection's transport starts to reject writes
TransportBreak(c) ==
    /\ client_state[c] = "connected"
    /\ transport_ok[c]
    /\ transport_ok' = [transport_ok EXCEPT ![c] = FALSE]
    /\ UNCHANGED <<engineVars, active_connections, table, client_state, receiving, pc,
                   responses, sweep, disconnected_connections, err, unregistered, write_failed, received,
                   tasks, inbox, cur, stepVars, guiVars, apiVars>>

\* ------------------------------------------------------------------ update_engines
\* on_engine_config_changed calls update_engines(selected_engines) on the GUI
\* thread, with a selection that is not empty
UpdateBegin(cfgs) ==
    /\ upd.pc = "idle"
    /\ updates < MaxUpdates
    /\ cfgs # <<>>
    /\ upd' = [pc |-> "quit", i |-> 1, cfgs |-> cfgs, built |-> {}]
    /\ UNCHANGED <<engineVars, connVars, tasks, inbox, cur, stepVars,
                   updates, generation, engine_configs, loaded, activity, apiVars, lifeVars>>

\* EngineChess.quit(): "quit" is sent to the process, which is then released
quit(e, w) ==
    IF proc[e] = "running" /\ ~has_quit_command_been_sent[e]
    THEN Append(w, Hs("quit")) ELSE w

\* `for engine in self.engines: engine.quit()`
UpdateQuit ==
    /\ upd.pc = "quit"
    /\ upd.i <= Len(engines)
    /\ LET e == engines[upd.i]
       IN  /\ stdin' = [stdin EXCEPT ![e] = quit(e, @)]
           /\ has_quit_command_been_sent' = [has_quit_command_been_sent EXCEPT ![e] = TRUE]
    /\ upd' = [upd EXCEPT !.i = @ + 1]
    /\ UNCHANGED <<engines, config, proc, command_queue, is_initialized, queueOutput,
                   produced, connVars, tasks, inbox, cur, stepVars,
                   updates, generation, engine_configs, loaded, activity, apiVars, lifeVars>>

\* `self.engines.clear()` and `self.engine_configs = new_configs`
UpdateClear ==
    /\ upd.pc = "quit"
    /\ upd.i > Len(engines)
    /\ engines' = <<>>
    /\ engine_configs' = upd.cfgs
    /\ loaded' = <<>>
    /\ upd' = [upd EXCEPT !.pc = "build", !.i = 1]
    /\ UNCHANGED <<config, proc, command_queue, stdin, has_quit_command_been_sent,
                   is_initialized, queueOutput, produced, connVars, tasks, inbox, cur,
                   stepVars, updates, generation, activity, apiVars, lifeVars>>

\* the engine object the next EngineChess(...) makes
NewEngine == CHOOSE e \in EngineIds : proc[e] = "none" /\ \A d \in EngineIds : d < e => proc[d] # "none"

\* EngineChess.initialize_engine(): the handshake of either kind of engine
initialize_engine(cfg) == initialize_maia(cfg, FALSE)

\* the end of update_engines once the loop over the configurations is over
UpdateAfter(i, built) ==
    IF i > Len(upd.cfgs)
    THEN /\ upd' = NoUpdate
         /\ updates' = updates + 1
         /\ generation' = Append(generation, built)
         /\ activity' = Append(activity, "Engine configuration updated")
    ELSE /\ upd' = [upd EXCEPT !.i = i, !.built = built]
         /\ UNCHANGED <<updates, generation, activity>>

\* one iteration of `for config in self.engine_configs:`: the engine is
\* spawned, initialized and appended, or the spawn fails and is logged
UpdateBuild(ok) ==
    /\ upd.pc = "build"
    /\ upd.i <= Len(upd.cfgs)
    /\ IF ok
       THEN LET e == NewEngine
                cfg == upd.cfgs[upd.i]
            IN  /\ proc' = [proc EXCEPT ![e] = "running"]
                /\ config' = [config EXCEPT ![e] = cfg]
                /\ command_queue' = [command_queue EXCEPT ![e] = initialize_engine(cfg)]
                /\ is_initialized' = [is_initialized EXCEPT ![e] = TRUE]
                /\ engines' = Append(engines, e)
                /\ UpdateAfter(NextConfig(upd.i, ok, Len(upd.cfgs)), upd.built \cup {e})
       ELSE /\ UpdateAfter(NextConfig(upd.i, ok, Len(upd.cfgs)), upd.built)
            /\ UNCHANGED <<proc, config, command_queue, is_initialized, engines>>
    /\ loaded' = Append(loaded, ok)
    /\ UNCHANGED <<stdin, has_quit_command_been_sent, queueOutput, produced, connVars,
                   tasks, inbox, cur, stepVars, engine_configs, apiVars, lifeVars>>

\* an engine process that was sent "quit" exits
ExitAfterQuit(e) ==
    /\ proc[e] = "running"
    /\ \E i \in 1..Len(stdin[e]) : stdin[e][i].cmd = "quit"
    /\ proc' = [proc EXCEPT ![e] = "exited"]
    /\ UNCHANGED <<engines, config, command_queue, stdin, has_quit_command_been_sent,
                   is_initialized, queueOutput, produced, connVars, tasks, inbox, cur,
                   stepVars, guiVars, apiVars, lifeVars>>

\* ------------------------------------------------------------------ the GUI and its server thread
\* QThread.isRunning(): run has not returned and the thread was not killed
isRunning == thread \in {"check", "serving", "drained"}

\* ServerThread.run once the engines are loaded: the port check, and when the
\* port is free the setup of the event loop up to loop.run_forever()
RunCheck(avail) ==
    /\ thread = "check"
    /\ IF avail
       THEN thread' = "serving" /\ stop_event' = FALSE
       ELSE thread' = "returned" /\ UNCHANGED stop_event
    /\ UNCHANGED <<engineVars, connVars, tasks, inbox, cur, stepVars, upd, updates,
                   generation, engine_configs, loaded, activity, apiVars,
                   server_running, gui, change>>

\* monitor_stop sees the stop event and awaits server.shutdown(); the loop
\* that run_forever() runs is not stopped by it (nothing calls loop.stop())
MonitorStop ==
    /\ thread = "serving"
    /\ stop_event
    /\ thread' = "drained"
    /\ UNCHANGED <<engineVars, connVars, tasks, inbox, cur, stepVars, upd, updates,
                   generation, engine_configs, loaded, activity, apiVars,
                   stop_event, server_running, gui, change>>

\* stop_server up to `self.server_thread.wait(5000)`, with ServerThread.stop
StopServer ==
    /\ gui = "idle" /\ upd.pc = "idle"
    /\ server_running
    /\ IF isRunning
       THEN stop_event' = TRUE /\ gui' = "waiting" /\ UNCHANGED server_running
       ELSE server_running' = FALSE /\ UNCHANGED <<stop_event, gui>>
    /\ UNCHANGED <<engineVars, connVars, tasks, inbox, cur, stepVars, upd, updates,
                   generation, engine_configs, loaded, activity, apiVars,
                   thread, change>>

\* stop_server after the wait: a thread that is still running is terminated
StopWaited ==
    /\ gui = "waiting"
    /\ thread' = IF isRunning THEN "terminated" ELSE thread
    /\ server_running' = FALSE
    /\ gui' = "idle"
    /\ UNCHANGED <<engineVars, connVars, tasks, inbox, cur, stepVars, upd, updates,
                   generation, engine_configs, loaded, activity, apiVars,
                   stop_event, change>>

\* an on_engine_config_changed that calls update_engines whatever the state
AlwaysUpdate(running, sel) == TRUE

\* on_engine_config_changed: `if self.server_running and self.server_thread:`
\* and `if selected_engines:`
ShouldUpdate(running, sel) == running /\ sel # <<>>

\* the selections get_selected_engines can return
Selections == ConfigLists({StdConfig}) \cup {<<>>}

\* on_engine_config_changed, up to the call of update_engines
ConfigChanged(sel) ==
    /\ gui = "idle" /\ upd.pc = "idle"
    /\ updates < MaxUpdates
    /\ change' = [seen |-> TRUE, running |-> server_running, sel |-> sel]
    /\ upd' = IF ShouldUpdate(server_running, sel)
              THEN [pc |-> "quit", i |-> 1, cfgs |-> sel, built |-> {}]
              ELSE upd
    /\ UNCHANGED <<engineVars, connVars, tasks, inbox, cur, stepVars, updates,
                   generation, engine_configs, loaded, activity, apiVars,
                   thread, stop_event, server_running, gui>>

\* ------------------------------------------------------------------ specifications
\* connections are opened in the order of their numbers
Opens(c) == \A d \in Conns : d < c => pc[d] # "none"

Endpoint ==
    \/ \E c \in Conns : Opens(c) /\ Connect(c)
    \/ \E c \in Conns : Accepted(c)
    \/ \E c \in Conns : PollRead(c)

Commands ==
    \/ \E c \in Conns, data \in ClientCmds : ClientSend(c, data)
    \/ ProcessCommand

Broadcast ==
    \/ \E c \in Conns : SweepStep(c)
    \/ \E e \in EngineIds : EngineEmit(e)

Failures ==
    \/ \E c \in Conns : ClientDisconnect(c)
    \/ \E c \in Conns : TransportBreak(c)

Crashes == \E e \in EngineIds : ProcessExit(e)

\* client commands on their way to the engines
NextCommands == Endpoint \/ Commands
SpecCommands == Init /\ [][NextCommands]_vars

\* engine output on its way to the clients
InitBroadcast ==
    /\ \E cfgs \in ConfigLists({StdConfig}) : InitEngines(cfgs)
    /\ InitServer
    /\ InitSettings(DefaultSettings)
NextBroadcast == Endpoint \/ Broadcast \/ Failures
SpecBroadcast == InitBroadcast /\ [][NextBroadcast]_vars

\* an engine process that exits under a running service
NextCrash == Endpoint \/ Broadcast \/ Crashes
SpecCrash == InitBroadcast /\ [][NextCrash]_vars

\* the engine set replaced under a running service
Stepwise ==
    \/ \E c \in Conns : PollBegin(c)
    \/ \E c \in Conns : PollStep(c)
    \/ CommandBegin
    \/ CommandStep

Reconfiguration ==
    \/ \E cfgs \in ConfigLists({StdConfig}) : UpdateBegin(cfgs)
    \/ UpdateQuit
    \/ UpdateClear
    \/ \E ok \in BOOLEAN : UpdateBuild(ok)
    \/ \E e \in EngineIds : ExitAfterQuit(e)

SwapCommands ==
    \/ \E c \in Conns : ClientSend(c, "stop")
    \/ ProcessCommand

NextSwap == Endpoint \/ SwapCommands \/ Stepwise \/ Reconfiguration
SpecSwap == InitBroadcast /\ [][NextSwap]_vars

\* an engine process that exits with commands still queued for it
NextExit == Endpoint \/ Commands \/ Crashes
SpecExit == Init /\ [][NextExit]_vars

\* Throttled-NN engines of every configuration, activated at startup
MaiaConfigs == {Config(TRUE, w, sm, b, tb) : w, sm, b, tb \in BOOLEAN}

InitHandshake ==
    /\ \E mc \in MaiaConfigs : \E cfgs \in {<<mc>>, <<mc, StdConfig>>} : InitEngines(cfgs)
    /\ InitServer
    /\ InitSettings(DefaultSettings)
SpecHandshake == InitHandshake /\ [][NextCommands]_vars

\* the engines loaded at startup and by update_engines, some failing to load
InitLoad ==
    /\ \E cfgs \in ConfigLists(BasicConfigs) :
            \E oks \in [1..Len(cfgs) -> BOOLEAN] : StartEngines(cfgs, oks)
    /\ InitServer
    /\ InitSettings(DefaultSettings)
NextLoad == Reconfiguration
SpecLoad == InitLoad /\ [][NextLoad]_vars

\* requests to the settings API
SettingsApi ==
    \/ \E key \in SettingKeys : GetSetting(key)
    \/ \E key \in SettingKeys, body \in StoredValues \cup {Absent} : SetSetting(key, body)

InitApi ==
    /\ InitEngines(<<StdConfig>>)
    /\ InitServer
    /\ \E s \in LoadedSettings : InitSettings(s)
NextApi == SettingsApi
SpecApi == InitApi /\ [][NextApi]_vars

\* engine output under clients that stay connected
NextOutput == Endpoint \/ Broadcast
SpecOutput == InitBroadcast /\ [][NextOutput]_vars

\* a client that goes away under a running service.  The event loop runs every
\* task that is ready: a handler that can take its next step takes it
NextDead == Endpoint \/ Broadcast \/ \E c \in Conns : ClientDisconnect(c)
FairDead ==
    \A c \in Conns :
        WF_vars(Accepted(c)) /\ WF_vars(PollRead(c)) /\ WF_vars(SweepStep(c))
SpecDead == InitBroadcast /\ [][NextDead]_vars /\ FairDead

\* a service that earlier clients have used and left: their handlers have
\* ended and the registry is empty, but the slots they took in its table hold
\* dummies
InitChurn ==
    /\ InitEngines(<<StdConfig>>)
    /\ InitConns
    /\ \E gone \in 0..MaxGone : table = [NewTable EXCEPT !.fill = gone]
    /\ Serving
    /\ InitSettings(DefaultSettings)
SpecChurn == InitChurn /\ [][NextDead]_vars

\* the GUI starting, reconfiguring and stopping its server thread.  The thread
\* has loaded its engines, some failing to load, and is at the port check
InitStart ==
    /\ \E cfgs \in ConfigLists(BasicConfigs) :
            \E oks \in [1..Len(cfgs) -> BOOLEAN] : StartEngines(cfgs, oks)
    /\ InitConns /\ table = NewTable
    /\ thread = "check" /\ stop_event = FALSE
    /\ server_running = TRUE /\ gui = "idle" /\ change = NoChange
    /\ InitSettings(DefaultSettings)
NextGui ==
    \/ \E avail \in BOOLEAN : RunCheck(avail)
    \/ MonitorStop
    \/ StopServer
    \/ StopWaited
    \/ \E sel \in Selections : ConfigChanged(sel)
    \/ UpdateQuit
    \/ UpdateClear
    \/ \E ok \in BOOLEAN : UpdateBuild(ok)
    \/ \E e \in EngineIds : ExitAfterQuit(e)
SpecGui == InitStart /\ [][NextGui]_vars

\* the whole service
Next ==
    Endpoint \/ Commands \/ Broadcast \/ Failures \/ Crashes \/ Stepwise \/ Reconfiguration
        \/ SettingsApi
Spec == Init /\ [][Next]_vars

\* ------------------------------------------------------------------ claims
Last(q) == q[Len(q)]

\* the text of the client message a written command derives from
Origin(w) == inbox[w.seq].data

\* C1: on every engine, the commands derived from one client's messages are
\* written to the process's stdin in the order in which the client sent the
\* messages, whatever the interleaving of the tasks and the poll loops.
C1_FifoPerEngine ==
    \A e \in EngineIds : \A i, j \in 1..Len(stdin[e]) :
        (i < j /\ stdin[e][i].cl # 0 /\ stdin[e][i].cl = stdin[e][j].cl)
            => stdin[e][i].seq <= stdin[e][j].seq

\* two engines have each been written two commands of one client, in order
C1_Witness ==
    /\ Len(engines) = 2
    /\ \E c \in Conns : \A e \in Range(engines) :
            \E i, j \in 1..Len(stdin[e]) :
                /\ i < j
                /\ stdin[e][i].cl = c /\ stdin[e][j].cl = c
                /\ stdin[e][i].seq < stdin[e][j].seq

\* C4: a "go" message without "nodes" is written to an is_maia engine as
\* "go nodes 1"; whatever a "go" message says, an engine that is not is_maia
\* is written exactly the client's text.
C4_GoRewrite ==
    \A e \in EngineIds : \A i \in 1..Len(stdin[e]) :
        LET w == stdin[e][i]
        IN  (w.cl # 0 /\ StartsWith(Origin(w), "go")) =>
                /\ (config[e].is_maia /\ ~Contains(Origin(w), "nodes"))
                        => w.cmd = "go nodes 1"
                /\ ~config[e].is_maia => w.cmd = Origin(w)

\* one bare "go" has been written to an is_maia engine and to a standard one
C4_Witness ==
    \E m, s \in Range(engines) :
        /\ config[m].is_maia /\ ~config[s].is_maia
        /\ \E i \in 1..Len(stdin[m]), j \in 1..Len(stdin[s]) :
                /\ stdin[m][i].cl # 0 /\ stdin[s][j].cl # 0
                /\ stdin[m][i].seq = stdin[s][j].seq
                /\ Origin(stdin[m][i]) = "go"
                /\ stdin[m][i].cmd = "go nodes 1"
                /\ stdin[s][j].cmd = "go"

\* C9: a command that derives from a client message is written to an engine's
\* process only when the engine is initialized and its handshake, up to
\* "isready", has been written before it.
C9_ClientAfterHandshake ==
    \A e \in EngineIds : \A i \in 1..Len(stdin[e]) :
        stdin[e][i].cl # 0 =>
            /\ is_initialized[e]
            /\ \E j \in 1..(i - 1) : stdin[e][j] = Hs("isready")

\* C2: the lines of one engine reach every connection in the order in which
\* the engine produced them.
C2_OutputOrder ==
    \A c \in Conns : \A i, j \in 1..Len(received[c]) :
        (i < j /\ received[c][i].e = received[c][j].e)
            => received[c][i].n <= received[c][j].n

\* a sweep of connection c's poll loop ends in this step: by the removal after
\* the last connection, or by an exception
SweepEnds(c) ==
    /\ pc[c] \in {"iter", "send"}
    /\ pc'[c] = "done" \/ responses'[c] # responses[c]

\* C3: when the sweep for a line ends, the line has been sent to every
\* connection that was registered and CONNECTED when the sweep began (and is
\* still CONNECTED after it, with a transport that takes writes), and to no
\* connection that was registered after the sweep began.
C3_SweepReachesSnapshot ==
    [][\A c \in Conns : SweepEnds(c) =>
            /\ \A x \in sweep[c].start \ sweep[c].sent :
                    client_state'[x] # "connected" \/ ~transport_ok'[x]
            /\ sweep[c].sent \subseteq sweep[c].reg]_vars

\* C8: a connection on which a send has raised is not in the registry when a
\* later sweep begins, and no send is tried on it again.
C8_FailedConnectionDropped ==
    /\ \A c \in Conns : sweep[c].dead = {}
    /\ \A x \in Conns : write_failed[x] <= 1

\* C7: while an engine is still running, no connection's poll loop has ended
\* (and closed its connection) because another engine's process has exited.
C7_CrashStaysLocal ==
    (\E e \in Range(engines) : proc[e] = "running")
        => \A c \in Conns : err[c] \notin {"crashed", "BrokenPipeError"}

\* C5: once update_engines has returned, every client command routed so far
\* was put to the whole engine set of one generation: the old one or the new.
C5_AtomicSwap ==
    upd.pc = "idle" =>
        \A i \in 1..Len(routed) : routed[i].targets \in Range(generation)

\* C6: after the engine set was replaced, every accepted connection is still
\* open and registered with its poll loop running, the messages received
\* after the swap were put to the new engines only, and each old engine's
\* last written command is the swap's "quit".
C6_SwapKeepsClient ==
    (updates = 1 /\ upd.pc = "idle") =>
        /\ \A c \in Conns : pc[c] \notin {"none", "accept"} =>
                /\ client_state[c] = "connected"
                /\ c \in active_connections
                /\ pc[c] # "done"
        /\ \A i \in 1..Len(routed) :
                inbox[routed[i].seq].epoch = 1 => routed[i].targets \subseteq generation[2]
        /\ \A e \in generation[1] : stdin[e] # <<>> /\ Last(stdin[e]) = Hs("quit")

\* C10: an engine of the previous generation is sent "quit" by update_engines,
\* or leaves the engine set, only when every engine of the new generation has
\* been constructed and initialized.
C10_OldQuitAfterNewBuilt ==
    \A e \in generation[1] :
        ((\E i \in 1..Len(stdin[e]) : stdin[e][i] = Hs("quit")) \/ e \notin Range(engines))
            => updates >= 1

\* C11: when update_engines ends with no engine at all, its caller is told of
\* a failure: the activity log does not say the configuration was updated.
C11_ZeroEnginesRejected ==
    (upd.pc = "idle" /\ updates >= 1 /\ Last(generation) = {})
        => Last(activity) # "Engine configuration updated"

\* the first n configurations of the latest load whose engine loaded, in order
RECURSIVE Succeeded(_)
Succeeded(n) ==
    IF n = 0 THEN <<>>
    ELSE Succeeded(n - 1) \o (IF loaded[n] THEN <<engine_configs[n]>> ELSE <<>>)

\* C12: after a load loop (at startup, in update_engines) the loop has come to
\* every configuration, and the engine set holds one engine for each
\* configuration whose construction succeeded, in the order of the
\* configurations, whichever of the others failed.
C12_LoadsIndependently ==
    upd.pc = "idle" =>
        /\ Len(loaded) = Len(engine_configs)
        /\ [i \in 1..Len(engines) |-> config[engines[i]]] = Succeeded(Len(engine_configs))

\* update_engines has loaded the second of two configurations after the first
\* one failed
C12_Witness ==
    /\ upd.pc = "idle" /\ updates = 1
    /\ Len(engine_configs) = 2 /\ loaded = <<FALSE, TRUE>>
    /\ Len(engines) = 1 /\ proc[engines[1]] = "running"

\* C13: a read of an engine whose process has exited returns the empty string:
\* no poll loop is ever ended by _read_line raising for an exited process.
C13_ReadAfterExitIsEmpty ==
    \A c \in Conns : err[c] # "crashed"

\* C14: no write is attempted on the stdin of a process that has exited: no
\* poll loop is ever ended by the BrokenPipeError of such a write.
C14_NoWriteAfterExit ==
    \A c \in Conns : err[c] # "BrokenPipeError"

\* C15: while a sweep over the registry is in progress (begun, and not ending
\* in this step) no step changes the registry.
C15_RegistryStableInSweep ==
    [][\A c \in Conns :
            (pc[c] \in {"iter", "send"} /\ ~SweepEnds(c))
                => active_connections' = active_connections]_vars

\* C16: registering a connection that is in the registry would leave the
\* registry as it is; and when a handler's finally block unregisters a
\* connection that a sweep has already removed, the registry stays as it is,
\* no error comes of it and the block goes on to close the connection.
C16_RegistryIdempotent ==
    [][\A c \in Conns :
            /\ c \in active_connections
                    => add(active_connections, c) = active_connections
            /\ (pc[c] # "done" /\ pc'[c] = "done" /\ c \notin active_connections)
                    => /\ active_connections' = active_connections
                       /\ err'[c] # "KeyError"
                       /\ client_state'[c] # "connected"]_vars

\* a handler has ended and its discard found the connection already removed
\* by another connection's sweep
C16_Witness ==
    \E c \in Conns : pc[c] = "done" /\ unregistered[c] = "absent"

\* C17: the answer to GET /api/settings/{key} is the stored value when the key
\* is in the settings, and 404 when it is not.
C17_GetSettingAnswers ==
    response.op = "GET" =>
        IF settings[response.key] # Absent
        THEN response.status = 200 /\ response.value = settings[response.key]
        ELSE response.status = 404

\* the texts of the activation of a Throttled-NN engine, in the order of the
\* claim: identification, weights, the fixed options, the throttle, slow
\* mover, book, tablebase, readiness probe
Activation(cfg) ==
    <<"uci">>
    \o (IF cfg.weights_file THEN <<"setoption name WeightsFile">> ELSE <<>>)
    \o <<"setoption name Threads value 1", "setoption name MinibatchSize value 1",
         "setoption name MaxPrefetch value 0", "setoption name NodesPerSecondLimit">>
    \o (IF cfg.use_slowmover THEN <<"setoption name SlowMover value 0">> ELSE <<>>)
    \o (IF cfg.opening_book
        THEN <<"setoption name Book value true", "setoption name BookFile">> ELSE <<>>)
    \o (IF cfg.tablebase_path THEN <<"setoption name SyzygyPath">> ELSE <<>>)
    \o <<"isready">>

\* C18: what was written to an is_maia engine's process, followed by what is
\* still queued for it, begins with the activation commands in the claim's
\* order, "isready" last, none of them a client's command.
C18_MaiaHandshakeOrder ==
    \A e \in Range(engines) : config[e].is_maia =>
        LET all == stdin[e] \o command_queue[e]
            h == Activation(config[e])
        IN  /\ Len(all) >= Len(h)
            /\ \A i \in 1..Len(h) : all[i] = Hs(h[i])

\* an engine with every option configured has been written its whole
\* activation and, after it, a client's command
C18_Witness ==
    \E e \in Range(engines) :
        /\ config[e] = Config(TRUE, TRUE, TRUE, TRUE, TRUE)
        /\ Len(stdin[e]) > Len(Activation(config[e]))
        /\ Last(stdin[e]).cl # 0

\* C19: an engine is initialized only when its readiness probe has been
\* written to the process and no command of its handshake is still queued.
C19_ReadyAfterProbeWritten ==
    \A e \in Range(engines) : is_initialized[e] =>
        /\ \E i \in 1..Len(stdin[e]) : stdin[e][i] = Hs("isready")
        /\ \A j \in 1..Len(command_queue[e]) : command_queue[e][j].cl # 0

\* C20: over its lifetime an engine is put the handshake at most once: "uci"
\* and the handshake's "isready" each occur at most once among the commands
\* written to it and queued for it.
C20_HandshakeOnce ==
    \A e \in EngineIds :
        LET all == stdin[e] \o command_queue[e]
        IN  /\ Cardinality({i \in 1..Len(all) : all[i] = Hs("uci")}) <= 1
            /\ Cardinality({i \in 1..Len(all) : all[i] = Hs("isready")}) <= 1

\* two "ucinewgame" messages have been routed to an engine that was not
\* initialized at startup, and it was put one handshake
C20_Witness ==
    /\ Len(routed) = 2
    /\ \A i \in 1..2 : inbox[routed[i].seq].data = "ucinewgame"
    /\ \E e \in Range(engines) :
            /\ ~config[e].is_maia
            /\ \E i \in 1..Len(stdin[e] \o command_queue[e]) :
                    (stdin[e] \o command_queue[e])[i] = Hs("uci")

\* the commands written to engine e so far, then those queued for it
All(e) == stdin[e] \o command_queue[e]

\* C21: once a "ucinewgame" message has been processed, every engine of the
\* set is initialized and, unless "quit" was written to it since (what is
\* dequeued after that is dropped), "ucinewgame" for that message and the
\* handshake (put at startup, or by this or an earlier "ucinewgame") are among
\* the commands written to it or queued for it.
C21_NewGameInitializes ==
    \A i \in 1..Len(routed) :
        StartsWith(inbox[routed[i].seq].data, "ucinewgame") =>
            /\ routed[i].targets = Range(engines)
            /\ \A e \in Range(engines) :
                    /\ is_initialized[e]
                    /\ ~has_quit_command_been_sent[e] =>
                            /\ \E k \in 1..Len(All(e)) :
                                    /\ All(e)[k].cmd = "ucinewgame"
                                    /\ All(e)[k].seq = routed[i].seq
                            /\ \E k \in 1..Len(All(e)) : All(e)[k] = Hs("uci")
                            /\ \E k \in 1..Len(All(e)) : All(e)[k] = Hs("isready")

\* a "ucinewgame" has been processed for an is_maia engine and an engine that
\* was not initialized at startup, whose handshake has since been written
C21_Witness ==
    /\ \E i \in 1..Len(routed) : inbox[routed[i].seq].data = "ucinewgame"
    /\ \E m, e \in Range(engines) :
            /\ config[m].is_maia /\ ~config[e].is_maia
            /\ \E k \in 1..Len(stdin[e]) : stdin[e][k] = Hs("isready")

C23_DeadEntryRemoved ==
    \A c \in Conns :
        (client_state[c] = "disconnected") ~>
            (c \notin active_connections /\ pc[c] = "done")

\* C25: "quit" is the last command written to an engine's process: whatever
\* send_next_command dequeues after writing it is dropped.
C25_NothingAfterQuit ==
    \A e \in EngineIds : \A k \in 1..Len(stdin[e]) :
        stdin[e][k].cmd = "quit" => k = Len(stdin[e])

\* "quit" was written for a client's first message; the second message went
\* to the same engine, was dequeued, and did not reach the process
C25_Witness ==
    \E e \in Range(engines) :
        /\ has_quit_command_been_sent[e]
        /\ Last(stdin[e]).cmd = "quit" /\ Last(stdin[e]).seq = 1
        /\ \E i \in 1..Len(routed) : routed[i].seq = 2 /\ e \in routed[i].targets
        /\ command_queue[e] = <<>>

\* C26: a connection that is connecting or open, whose handler has registered
\* it and has not ended, and none of whose writes has failed, is in the
\* registry.
C26_OpenIsRegistered ==
    \A c \in Conns :
        (/\ pc[c] \notin {"none", "done"}
         /\ client_state[c] \in {"connecting", "connected"}
         /\ write_failed[c] = 0)
            => c \in active_connections

\* C27: no connection is sent the same output line twice.
C27_DeliveredOnce ==
    \A x \in Conns : \A i, j \in 1..Len(received[x]) :
        received[x][i] = received[x][j] => i = j

\* a connection handler is in its poll loop
Polling(c) == pc[c] \in {"read", "sleep", "walk", "iter", "send"}

\* C28: a step that writes to an engine's process is a poll loop's read_line:
\* it writes the one command at the head of that engine's queue; and while no
\* handler is in its poll loop no step writes to any process or takes
\* anything from a command queue.
C28_WritesOnlyInReadLine ==
    [][\A e \in EngineIds :
          /\ stdin'[e] # stdin[e] =>
                /\ \E c \in Conns : pc[c] \in {"read", "sleep"}
                /\ command_queue[e] # <<>>
                /\ stdin'[e] = Append(stdin[e], Head(command_queue[e]))
                /\ command_queue'[e] = Tail(command_queue[e])
          /\ (\A c \in Conns : ~Polling(c)) =>
                /\ stdin'[e] = stdin[e]
                /\ Len(command_queue'[e]) >= Len(command_queue[e])
                /\ SubSeq(command_queue'[e], 1, Len(command_queue[e]))
                        = command_queue[e]]_vars

\* every poll loop has ended; a client message processed since then waits in
\* the queue of an engine, behind the handshake put at startup, unwritten
C28_Witness ==
    /\ \E c \in Conns : pc[c] = "done"
    /\ \A c \in Conns : ~Polling(c)
    /\ \E e \in Range(engines) :
            /\ stdin[e] = <<>>
            /\ Len(command_queue[e]) >= 2
            /\ Head(command_queue[e]) = Hs("uci")
            /\ Last(command_queue[e]).seq > 0

\* C29: while a poll loop is running, a poll loop that has ended has left no
\* line that read_line returned to it unbroadcast: every line it took from an
\* engine's queue has been sent to some connection or was the line of the
\* sweep it ended in.
C29_TakenLinesBroadcast ==
    \A c \in Conns :
        (pc[c] = "done" /\ \E d \in Conns : Polling(d)) =>
            \A k \in 2..Len(responses[c]) :
                \E x \in Conns : responses[c][k] \in Range(received[x])

\* C24: when ServerThread.run is over (it has returned, or stop_server has
\* killed the thread after its wait) every engine of the set has been sent
\* "quit".
C24_QuitWhenOver ==
    thread \in {"returned", "terminated"} =>
        \A e \in Range(engines) : has_quit_command_been_sent[e]

\* C30: update_engines begins only while server_running is set and with a
\* selection that is not empty; and while server_running is not set no step
\* changes the engine set, engine_configs, or what the engines were written.
C30_ChangeNeedsRunningServer ==
    [][/\ (upd.pc = "idle" /\ upd'.pc # "idle") =>
              (server_running /\ upd'.cfgs # <<>>)
       /\ (~server_running \/ (change'.seen /\ change'.sel = <<>> /\ change' # change)) =>
              UNCHANGED <<engines, engine_configs, stdin, has_quit_command_been_sent,
                          upd>>]_vars

\* the configuration was changed after the server was stopped: the engines
\* the thread had loaded are still the set
C30_Witness ==
    /\ change.seen /\ ~change.running /\ change.sel # <<>>
    /\ ~server_running
    /\ upd.pc = "idle" /\ updates = 0
    /\ engines # <<>>

TypeOK ==
    /\ cur \in {LoopIdle, CmdTask} \cup Conns
    /\ active_connections \subseteq Conns
    /\ \A c \in Conns : pc[c] \in {"none", "accept", "read", "sleep", "walk", "iter", "send", "done"}
    /\ thread \in {"check", "serving", "drained", "returned", "terminated"}
    /\ table.fill \in 0..table.mask

====
